---------------------------- MODULE Spec2Model ----------------------------
(***************************************************************************)
(* PySeismoSoil: Site_Effect_Adjustment (class_site_effect_adjustment.py)  *)
(* and the collaborators it wires together: Ground_Motion, the HH          *)
(* parameter (de)serialisation, the site-factor lookup and the spectral    *)
(* amplifier.                                                              *)
(*                                                                         *)
(* Numbers are fixed-point integers:                                       *)
(*   acceleration  cm/s/s      (1 m/s/s = 100, 1 gal = 1, 1 g = 981)       *)
(*   time, dt      0.1 s                                                   *)
(*   velocity      mm/s        (= cm/s/s * 0.1 s)                          *)
(*   displacement  0.1 mm      (= mm/s * 0.1 s)                            *)
(*   frequency     1e-8 Hz     (the absolute tolerance of numpy.allclose)  *)
(*   Vs30          m/s,  z1  mm,  PGA_in_g  1/1000 g                       *)
(***************************************************************************)
EXTENDS Integers, Sequences, FiniteSets, TLC

VARIABLES
    gm_args,    \* arguments of the Ground_Motion constructor call
    gm_res,     \* its outcome and the record it built
    gm_read,    \* derived attributes read from the record so far
    hh_param,   \* an HH parameter dictionary
    hh_array,   \* the array serialize_params_to_array produced from it
    hh_back,    \* the dictionary deserialize_array_to_params rebuilt
    site,       \* what the site-factor collaborator holds for the site
    ctor,       \* the last Site_Effect_Adjustment(...) call and its outcome
    obj,        \* the attributes of the Site_Effect_Adjustment object
    last,       \* the last run(...) call: arguments, calls made, outcome
    outs        \* output motion of the object's first returning run

vars == <<gm_args, gm_res, gm_read, hh_param, hh_array, hh_back,
          site, ctor, obj, last, outs>>

gmVars == <<gm_args, gm_res, gm_read>>
hhVars == <<hh_param, hh_array, hh_back>>
seaVars == <<site, ctor, obj, last, outs>>

(***************************************************************************)
(* Bounds of the model                                                     *)
(***************************************************************************)
MaxLen == 3      \* samples in a generated acceleration record
MaxAmp == 1      \* largest magnitude of a generated sample
MaxDt == 2       \* largest generated sample interval (0.1 s)
MaxParam == 2    \* largest generated HH parameter value (tenths)
MaxGrid == 3     \* longest frequency grid of a transfer function

(***************************************************************************)
(* Small helpers                                                           *)
(***************************************************************************)
Abs(x) == IF x < 0 THEN -x ELSE x

Max(a, b) == IF a >= b THEN a ELSE b

RECURSIVE SeqsUpTo(_, _)
\* all sequences over S of length 1..n
SeqsUpTo(S, n) ==
    IF n = 0 THEN {}
    ELSE SeqsUpTo(S, n - 1) \cup [1..n -> S]

RECURSIVE MaxAbs_Signed(_)
\* MaxAbs without the abs: the largest sample, sign kept
MaxAbs_Signed(a) ==
    IF Len(a) = 1 THEN a[1]
    ELSE Max(a[1], MaxAbs_Signed(Tail(a)))

RECURSIVE MaxAbs(_)
\* numpy: max(abs(a)) of a non-empty array
MaxAbs(a) ==
    IF Len(a) = 1 THEN Abs(a[1])
    ELSE Max(Abs(a[1]), MaxAbs(Tail(a)))

RECURSIVE SumTo(_, _)
\* a[1] + ... + a[k]
SumTo(a, k) == IF k = 0 THEN 0 ELSE SumTo(a, k - 1) + a[k]

(***************************************************************************)
(* Ground_Motion (class_ground_motion.py)                                  *)
(***************************************************************************)
\* unit tokens and their factor to the internal unit (cm/s/s here, SI there)
ACCEL_UNITS == {"m", "m/s/s", "cm/s/s", "gal", "g"}

UnitFactor(unit) ==
    CASE unit = "m" -> 100
      [] unit = "m/s/s" -> 100
      [] unit = "cm/s/s" -> 1
      [] unit = "gal" -> 1
      [] unit = "g" -> 981

\* dt = 0 stands for dt=None (the default)
NoDt == 0

\* a transfer function: frequency grid, amplitude and phase on it
NoTF == [freq |-> <<>>, amp |-> <<>>, phase |-> <<>>]

\* an amplified signal is kept in factored form: the samples and the
\* transfer function applied to them (NoTF for a raw record)
NoGM ==
    [dt |-> 0, time |-> <<>>, accel |-> <<>>, unit |-> "none", tf |-> NoTF]

\* convert samples given in 1/scale of a unit worth f internal units
Scaled(a, f, scale) == [i \in 1..Len(a) |-> (a[i] * f) \div scale]

\* the time column of two-column data is strictly increasing, evenly spaced
TimeOK(t) ==
    /\ Len(t) >= 2
    /\ \A i \in 1..(Len(t) - 1) : t[i + 1] - t[i] = t[2] - t[1]
    /\ t[2] - t[1] > 0

\* Ground_Motion(data, unit, dt=None)
Ground_Motion(data, unit, dt) ==
    IF data.cols = 1 /\ dt = NoDt
    THEN [status |-> "ValueError",
          msg |-> "dt is needed for one-column data", gm |-> NoGM]
    ELSE IF data.cols = 2 /\ ~TimeOK(data.t)
    THEN [status |-> "ValueError",
          msg |-> "time column is not evenly increasing", gm |-> NoGM]
    ELSE IF unit \notin ACCEL_UNITS
    THEN [status |-> "ValueError",
          msg |-> "unit is not a valid unit", gm |-> NoGM]
    ELSE LET d == IF data.cols = 2 THEN data.t[2] - data.t[1] ELSE dt
             tm == IF data.cols = 2 THEN data.t
                   ELSE [i \in 1..Len(data.v) |-> (i - 1) * d]
         IN  [status |-> "ok", msg |-> "",
              gm |-> [dt |-> d, time |-> tm,
                      accel |-> Scaled(data.v, UnitFactor(unit), data.scale),
                      unit |-> unit, tf |-> data.tf]]

\* Ground_Motion.pga: peak absolute acceleration, internal unit
pga(gm) == MaxAbs(gm.accel)

\* Ground_Motion.pga_in_<unit>: the peak converted at read time
pga_in(gm, unit) == pga(gm) \div UnitFactor(unit)

\* Ground_Motion.pga_in_g in 1/1000 g
pga_in_g(gm) == (pga(gm) * 1000) \div 981

RECURSIVE CumSumDt_FromZero(_, _)
\* CumSumDt anchored at zero: the k-th value leaves out the k-th sample
CumSumDt_FromZero(a, dt) ==
    IF Len(a) = 0 THEN <<>>
    ELSE LET head == CumSumDt_FromZero(SubSeq(a, 1, Len(a) - 1), dt)
         IN  IF Len(head) = 0 THEN <<0>>
             ELSE Append(head, head[Len(head)] + dt * a[Len(a) - 1])

RECURSIVE CumSumDt(_, _)
\* running sum of the samples, each times dt
CumSumDt(a, dt) ==
    IF Len(a) = 0 THEN <<>>
    ELSE LET head == CumSumDt(SubSeq(a, 1, Len(a) - 1), dt)
             prev == IF Len(head) = 0 THEN 0 ELSE head[Len(head)]
         IN  Append(head, prev + dt * a[Len(a)])

\* Ground_Motion.veloc: (time, velocity), one integration of accel
veloc(gm) == [time |-> gm.time, val |-> CumSumDt(gm.accel, gm.dt)]

\* Ground_Motion.displ: (time, displacement), integration of veloc
displ(gm) == [time |-> gm.time, val |-> CumSumDt(veloc(gm).val, gm.dt)]


(***************************************************************************)
(* The records of tests/test_class_ground_motion.py                        *)
(***************************************************************************)
\* v_bench: time (0.1 s) and velocity (mm/s) of two_column_data_example.txt
T_BENCH == [i \in 1..15 |-> i]

V_BENCH ==
    <<100, 300, 600, 1000, 1500, 1700, 2000, 2400, 2900, 3500,
      3800, 4200, 4700, 5300, 6000>>

\* u_bench: displacement (0.1 mm) of the same record
U_BENCH ==
    <<100, 400, 1000, 2000, 3500, 5200, 7200, 9600, 12500, 16000,
      19800, 24000, 28700, 34000, 40000>>

\* the acceleration column (m/s/s) that v_bench is the integral of
A_BENCH ==
    [i \in 1..15 |->
        (V_BENCH[i] - (IF i = 1 THEN 0 ELSE V_BENCH[i - 1])) \div 100]

\* one-column data, samples in whole units
OneCol(v) == [cols |-> 1, t |-> <<>>, v |-> v, scale |-> 1, tf |-> NoTF]

\* two-column (time, value) data, samples in whole units
TwoCol(t, v) == [cols |-> 2, t |-> t, v |-> v, scale |-> 1, tf |-> NoTF]

\* the constructor calls of test_loading_data and test_num_integration
TestCalls ==
    { [data |-> TwoCol(<<1, 2, 3, 4>>, <<1, 2, 3, 4>>),
       unit |-> "m/s/s", dt |-> NoDt],
      [data |-> OneCol(<<1, 2, 3, 4, 5>>), unit |-> "gal", dt |-> 1],
      [data |-> OneCol(<<1, 2, 3, 4, 5>>), unit |-> "gal", dt |-> NoDt],
      [data |-> TwoCol(T_BENCH, A_BENCH), unit |-> "m/s/s", dt |-> NoDt] }

(***************************************************************************)
(* Specification SpecGM: construct a Ground_Motion and read it             *)
(***************************************************************************)
Samples == SeqsUpTo((-MaxAmp)..MaxAmp, MaxLen)

UnitTokens == ACCEL_UNITS \cup {"furlong"}

\* a time column of n points from s in steps of d (constant when d = 0)
TimeColumn(n, s, d) == [i \in 1..n |-> s + (i - 1) * d]

\* one-column calls with and without dt
OneColumnCalls ==
    { [data |-> OneCol(v), unit |-> u, dt |-> d] :
        v \in Samples, u \in UnitTokens, d \in 0..MaxDt }

\* two-column calls; dt is left out
TwoColumnCalls ==
    { [data |-> TwoCol(TimeColumn(Len(v), s, d), v), unit |-> u,
       dt |-> NoDt] :
        v \in { w \in Samples : Len(w) >= 2 }, s \in {0, 1},
        d \in 0..MaxDt, u \in UnitTokens }

NothingRead ==
    [has_pga |-> FALSE, pga |-> 0,
     has_veloc |-> FALSE, veloc |-> [time |-> <<>>, val |-> <<>>],
     has_displ |-> FALSE, displ |-> [time |-> <<>>, val |-> <<>>]]

GMPending == [status |-> "pending", msg |-> "", gm |-> NoGM]

GMIdle ==
    /\ gm_args = [data |-> OneCol(<<0>>), unit |-> "m", dt |-> 1]
    /\ gm_res = GMPending
    /\ gm_read = NothingRead

\* gm = Ground_Motion(data, unit, dt=dt)
GM_Construct ==
    /\ gm_res.status = "pending"
    /\ gm_res' = Ground_Motion(gm_args.data, gm_args.unit, gm_args.dt)
    /\ UNCHANGED <<gm_args, gm_read>>

\* gm.pga_in_<the declared unit>
GM_ReadPGA ==
    /\ gm_res.status = "ok"
    /\ ~gm_read.has_pga
    /\ gm_read' = [gm_read EXCEPT !.has_pga = TRUE,
                                  !.pga = pga_in(gm_res.gm, gm_res.gm.unit)]
    /\ UNCHANGED <<gm_args, gm_res>>

\* gm.veloc
GM_ReadVeloc ==
    /\ gm_res.status = "ok"
    /\ ~gm_read.has_veloc
    /\ gm_read' = [gm_read EXCEPT !.has_veloc = TRUE,
                                  !.veloc = veloc(gm_res.gm)]
    /\ UNCHANGED <<gm_args, gm_res>>

\* gm.displ
GM_ReadDispl ==
    /\ gm_res.status = "ok"
    /\ ~gm_read.has_displ
    /\ gm_read' = [gm_read EXCEPT !.has_displ = TRUE,
                                  !.displ = displ(gm_res.gm)]
    /\ UNCHANGED <<gm_args, gm_res>>

(***************************************************************************)
(* HH parameters (helper_hh_model.py)                                      *)
(***************************************************************************)
\* PARAM_ORDER with a and gamma_ref exchanged
PARAM_ORDER_Swapped ==
    <<"gamma_t", "gamma_ref", "a", "beta", "s", "Gmax", "mu", "Tmax", "d">>

\* the order in which the nine parameters are laid out in an array
PARAM_ORDER ==
    <<"gamma_t", "a", "gamma_ref", "beta", "s", "Gmax", "mu", "Tmax", "d">>

PARAM_NAMES == { PARAM_ORDER[i] : i \in 1..Len(PARAM_ORDER) }

\* serialize_params_to_array(param)
serialize_params_to_array(param) ==
    [i \in 1..Len(PARAM_ORDER) |-> param[PARAM_ORDER[i]]]

NoParam == [n \in PARAM_NAMES |-> 0]

\* deserialize_array_to_params(array)
deserialize_array_to_params(array) ==
    IF Len(array) # Len(PARAM_ORDER)
    THEN [status |-> "ValueError", param |-> NoParam]
    ELSE [status |-> "ok",
          param |-> [n \in PARAM_NAMES |->
                        array[CHOOSE i \in 1..Len(PARAM_ORDER) :
                                  PARAM_ORDER[i] = n]]]

\* self.param and self.array of tests/test_helper_hh_model.py (tenths)
TEST_PARAM ==
    [n \in PARAM_NAMES |->
        CASE n = "gamma_t" -> 1 [] n = "a" -> 2 [] n = "gamma_ref" -> 3
          [] n = "beta" -> 4 [] n = "s" -> 5 [] n = "Gmax" -> 6
          [] n = "mu" -> 7 [] n = "Tmax" -> 8 [] n = "d" -> 9]

TEST_ARRAY == <<1, 2, 3, 4, 5, 6, 7, 8, 9>>

(***************************************************************************)
(* Specification SpecHH: serialise a parameter set and read it back        *)
(***************************************************************************)
HHParams == [PARAM_NAMES -> 1..MaxParam] \cup {TEST_PARAM}

NoArray == [status |-> "pending", arr |-> <<>>]

NoBack == [status |-> "pending", from |-> <<>>, param |-> NoParam]

HHIdle ==
    /\ hh_param = NoParam
    /\ hh_array = NoArray
    /\ hh_back = NoBack

\* array = hh.serialize_params_to_array(param)
HH_Serialize ==
    /\ hh_array.status = "pending"
    /\ hh_array' = [status |-> "ok",
                    arr |-> serialize_params_to_array(hh_param)]
    /\ UNCHANGED <<hh_param, hh_back>>

\* hh.deserialize_array_to_params(array), array from HH_Serialize
HH_Deserialize ==
    /\ hh_array.status = "ok"
    /\ hh_back.status = "pending"
    /\ LET r == deserialize_array_to_params(hh_array.arr)
       IN  hh_back' = [status |-> r.status, from |-> hh_array.arr,
                       param |-> r.param]
    /\ UNCHANGED <<hh_param, hh_array>>

\* hh.deserialize_array_to_params(array), array shortened or extended
HH_DeserializeOther ==
    /\ hh_array.status = "ok"
    /\ hh_back.status = "pending"
    /\ \E a \in { SubSeq(hh_array.arr, 1, Len(hh_array.arr) - 1),
                  Append(hh_array.arr, 1), TEST_ARRAY } :
          LET r == deserialize_array_to_params(a)
          IN  hh_back' = [status |-> r.status, from |-> a,
                          param |-> r.param]
    /\ UNCHANGED <<hh_param, hh_array>>

(***************************************************************************)
(* Python values passed to Site_Effect_Adjustment(...)                     *)
(***************************************************************************)
\* a scalar argument: its Python type and, for numbers, its value
PyVal(type, val) == [type |-> type, val |-> val]

PyNone == PyVal("NoneType", 0)

\* an argument left out of the call, so that its default applies
Omitted == PyVal("omitted", 0)

\* isinstance(x, (int, float, np.number)); bool is a subclass of int
IsNumber(x) == x.type \in {"int", "float", "numpy.float64", "bool"}

\* IsNumberOrNone that lets every type through
IsNumberOrNone_Any(x) == TRUE

\* isinstance(x, (int, float, np.number, type(None)))
IsNumberOrNone(x) == IsNumber(x) \/ x.type = "NoneType"

\* isinstance(x, Ground_Motion)
IsGroundMotion(x) == x.type = "Ground_Motion"

AMPL_METHODS == {"nl_hh", "eq_hh"}

RECURSIVE ExpTerm(_, _)
\* x^k / k! for x in 1/1000, scaled by 100000
ExpTerm(x, k) ==
    IF k = 0 THEN 100000 ELSE (ExpTerm(x, k - 1) * x) \div (1000 * k)

RECURSIVE ExpNegSum(_, _)
\* sum of (-x)^i / i! for i in 0..k
ExpNegSum(x, k) ==
    IF k = 0 THEN ExpTerm(x, 0)
    ELSE ExpNegSum(x, k - 1)
         + (IF k % 2 = 0 THEN ExpTerm(x, k) ELSE -ExpTerm(x, k))

\* np.exp(-x) for x >= 0 in 1/1000, scaled by 100000
ExpNeg(x) == ExpNegSum(x, 24)

\* 140.511 * np.exp(-0.00303 * Vs30), in mm
Z1FromVs30(Vs30) == (140511 * (ExpNeg((303 * Vs30) \div 100) \div 10)) \div 10000

NoAttrs ==
    [set |-> {}, input_motion |-> NoGM, Vs30 |-> PyNone, z1 |-> PyNone,
     PGA_in_g |-> 0, lenient |-> FALSE, ampl_method |-> "none"]

\* BindArgs with lenient=True as the default
BindArgs_LenientDefault(args) ==
    [input_motion |-> args.input_motion,
     Vs30 |-> args.Vs30,
     z1 |-> IF args.z1 = Omitted THEN PyNone ELSE args.z1,
     ampl_method |-> IF args.ampl_method = "omitted" THEN "nl_hh"
                     ELSE args.ampl_method,
     lenient |-> args.lenient \in {"omitted", "True"}]

\* the signature's defaults: z1_in_m=None, ampl_method='nl_hh', lenient=False
BindArgs(args) ==
    [input_motion |-> args.input_motion,
     Vs30 |-> args.Vs30,
     z1 |-> IF args.z1 = Omitted THEN PyNone ELSE args.z1,
     ampl_method |-> IF args.ampl_method = "omitted" THEN "nl_hh"
                     ELSE args.ampl_method,
     lenient |-> IF args.lenient = "omitted" THEN FALSE
                 ELSE args.lenient = "True"]

\* Z1IsNone as a truth test: `not z1_in_m`
Z1IsNone_Falsy(z1) == z1 = PyNone \/ z1.val = 0

\* line 52: z1_in_m is None
Z1IsNone(z1) == z1 = PyNone

\* Site_Effect_Adjustment.__init__
SEA_init(args) ==
    LET a == BindArgs(args) IN
    IF ~IsGroundMotion(a.input_motion)
    THEN [status |-> "TypeError", attrs |-> NoAttrs]
    ELSE IF ~IsNumber(a.Vs30)
    THEN [status |-> "TypeError", attrs |-> NoAttrs]
    ELSE IF ~IsNumberOrNone(a.z1)
    THEN [status |-> "TypeError", attrs |-> NoAttrs]
    ELSE IF a.ampl_method \notin AMPL_METHODS
    THEN [status |-> "ValueError", attrs |-> NoAttrs]
    ELSE LET z1 == IF Z1IsNone(a.z1)
                   THEN PyVal("numpy.float64", Z1FromVs30(a.Vs30.val))
                   ELSE a.z1
         IN  [status |-> "ok",
              attrs |-> [set |-> {"input_motion", "Vs30", "z1", "PGA_in_g",
                                  "_lenient", "_ampl_method"},
                         input_motion |-> a.input_motion.gm,
                         Vs30 |-> a.Vs30,
                         z1 |-> z1,
                         PGA_in_g |-> pga_in_g(a.input_motion.gm),
                         lenient |-> a.lenient,
                         ampl_method |-> a.ampl_method]]

(***************************************************************************)
(* numpy.allclose                                                          *)
(***************************************************************************)
\* numpy broadcasting of two one-dimensional shapes
Broadcastable(a, b) == Len(a) = Len(b) \/ Len(a) = 1 \/ Len(b) = 1

\* numpy.isclose(x, y): |x - y| <= atol + rtol * |y|, atol=1e-8, rtol=1e-5
IsClose(x, y) == Abs(x - y) <= 1 + (Abs(y) \div 100000)

\* numpy.allclose(a, b): raises ValueError when the shapes do not broadcast
AllClose(a, b) ==
    IF ~Broadcastable(a, b)
    THEN [status |-> "ValueError", close |-> FALSE]
    ELSE [status |-> "ok",
          close |-> \A i \in 1..Max(Len(a), Len(b)) :
                        IsClose(a[IF Len(a) = 1 THEN 1 ELSE i],
                                b[IF Len(b) = 1 THEN 1 ELSE i])]

(***************************************************************************)
(* Site_Factors (class_site_factors.py): the site-factor collaborator      *)
(***************************************************************************)
\* a frequency grid of n points from 1 Hz in steps of 1 Hz, moved by shift
Grid(n, shift) == [i \in 1..n |-> i * 100000000 + shift]

\* amplification held for a method on a grid of n points
AmplSpectrum(method, n) ==
    [i \in 1..n |-> IF method = "nl_hh" THEN 2 + i ELSE 1 + i]

\* phase shift held for a method on a grid of n points
PhaseSpectrum(method, n) ==
    [i \in 1..n |-> IF method = "eq_hh" THEN -i ELSE -2 * i]

\* Site_Factors(Vs30, z1, PGA, lenient=...): strict mode rejects a site
\* outside the range the factors cover
Site_Factors(Vs30, z1, PGA, lenient) ==
    IF ~lenient /\ ~site.in_range THEN "ValueError" ELSE "ok"

\* Site_Factors.get_amplification(method=..., Fourier=True)
get_amplification(method) ==
    [freq |-> site.af_freq,
     spectrum |-> AmplSpectrum(method, Len(site.af_freq)),
     iscomplex |-> site.af_complex]

\* Site_Factors.get_phase_shift(method=...)
get_phase_shift(method) ==
    [freq |-> site.phf_freq,
     spectrum |-> PhaseSpectrum(method, Len(site.phf_freq)),
     iscomplex |-> site.phf_complex]

(***************************************************************************)
(* helper_site_response.amplify_motion: the spectral amplifier             *)
(***************************************************************************)
\* the Fourier grid of n samples at dt runs from 1/(n dt) to 1/(2 dt)
Covers(freq, time) ==
    LET dt == time[2] - time[1] IN
    /\ freq[1] <= 1000000000 \div (Len(time) * dt)
    /\ freq[Len(freq)] >= 500000000 \div dt

\* amplify_motion(accel, (freq, (amp, phase)), show_fig, return_fig_obj,
\*                extrap_tf)
amplify_motion(accel_in, tf, show_fig, return_fig_obj, extrap_tf) ==
    IF ~extrap_tf /\ ~Covers(tf.freq, accel_in.time)
    THEN [status |-> "ValueError", shape |-> "none", accel |-> accel_in,
          tf |-> NoTF, fig |-> "None", ax |-> "None"]
    ELSE [status |-> "ok",
          shape |-> IF return_fig_obj THEN "triple" ELSE "single",
          accel |-> accel_in, tf |-> tf,
          fig |-> IF return_fig_obj THEN "Figure" ELSE "None",
          ax |-> IF return_fig_obj THEN "Axes" ELSE "None"]

(***************************************************************************)
(* Site_Effect_Adjustment.run                                              *)
(***************************************************************************)
NoReturn == [shape |-> "none", motion |-> NoGM, fig |-> "None", ax |-> "None"]

NoRun ==
    [called |-> FALSE,
     args |-> [show_fig |-> FALSE, return_fig_obj |-> FALSE,
               kw_extrap_tf |-> "absent"],
     sf_calls |-> <<>>, af_calls |-> <<>>, phf_calls |-> <<>>,
     warnings |-> {}, amp_calls |-> <<>>, titled |-> FALSE,
     outcome |-> "none", raised_in |-> "", ret |-> NoReturn]

\* the three warnings run prints
WARN_FREQ == "frequency arrays not identical"

WARN_AF_COMPLEX == "amplification factor is complex"

WARN_PHF_COMPLEX == "phase factor is complex"

\* PhaseMethod following the non-linear amplification method
PhaseMethod_NonLinear == "nl_hh"

\* line 70: the phase shift is always asked for with this method
PhaseMethod == "eq_hh"

\* ExtrapTf with strict failure
ExtrapTf_Strict == FALSE

\* line 90: the extrapolation policy run hands to the amplifier
ExtrapTf == TRUE

\* line 89: run asks the amplifier for the figure exactly when it shows it
AmplifierReturnFigObj(show_fig) == show_fig

\* lines 72-81: the warnings printed for a pair of factors, given the
\* verdict of np.allclose on their frequency arrays
Warnings(af, phf, close) ==
    (IF ~close THEN {WARN_FREQ} ELSE {})
    \cup (IF af.iscomplex THEN {WARN_AF_COMPLEX} ELSE {})
    \cup (IF phf.iscomplex THEN {WARN_PHF_COMPLEX} ELSE {})

\* RunReturn that gives the triple whatever return_fig_obj says
RunReturn_AlwaysTriple(show_fig, return_fig_obj, motion, fig, ax) ==
    [shape |-> "triple", motion |-> motion,
     fig |-> IF show_fig THEN fig ELSE "None",
     ax |-> IF show_fig THEN ax ELSE "None"]

\* lines 101-106: what run returns
RunReturn(show_fig, return_fig_obj, motion, fig, ax) ==
    IF return_fig_obj
    THEN [shape |-> "triple", motion |-> motion,
          fig |-> IF show_fig THEN fig ELSE "None",
          ax |-> IF show_fig THEN ax ELSE "None"]
    ELSE [shape |-> "single", motion |-> motion,
          fig |-> "None", ax |-> "None"]

\* run(show_fig, return_fig_obj, **kwargs_to_plot) on the object self;
\* kw_extrap_tf tells whether kwargs_to_plot has the key extrap_tf
SEA_run(self, show_fig, return_fig_obj, kw_extrap_tf) ==
    LET args == [show_fig |-> show_fig, return_fig_obj |-> return_fig_obj,
                 kw_extrap_tf |-> kw_extrap_tf]
        sf_call == [Vs30 |-> self.Vs30, z1 |-> self.z1,
                    PGA |-> self.PGA_in_g, lenient |-> self.lenient]
        sf == Site_Factors(self.Vs30, self.z1, self.PGA_in_g, self.lenient)
        af_call == [method |-> self.ampl_method, Fourier |-> TRUE]
        af == get_amplification(self.ampl_method)
        phf_call == [method |-> PhaseMethod]
        phf == get_phase_shift(PhaseMethod)
        ac == AllClose(af.freq, phf.freq)
        accel_in == [time |-> self.input_motion.time,
                     val |-> self.input_motion.accel]
        tf == [freq |-> af.freq, amp |-> af.spectrum, phase |-> phf.spectrum]
        amp_call == [accel |-> accel_in, tf |-> tf, show_fig |-> show_fig,
                     return_fig_obj |-> AmplifierReturnFigObj(show_fig),
                     extrap_tf |-> ExtrapTf]
        result == amplify_motion(accel_in, tf, show_fig,
                                 AmplifierReturnFigObj(show_fig), ExtrapTf)
        out == Ground_Motion([cols |-> 2, t |-> result.accel.time,
                              v |-> result.accel.val, scale |-> 100,
                              tf |-> result.tf], "m", NoDt)
        queried == [NoRun EXCEPT !.called = TRUE, !.args = args,
                                 !.sf_calls = <<sf_call>>]
        fetched == [queried EXCEPT !.af_calls = <<af_call>>,
                                   !.phf_calls = <<phf_call>>]
        warned == [fetched EXCEPT !.warnings = Warnings(af, phf, ac.close)]
        amplified == [warned EXCEPT !.amp_calls = <<amp_call>>]
    IN  IF sf # "ok"
        THEN [queried EXCEPT !.outcome = sf, !.raised_in = "Site_Factors"]
        ELSE IF ac.status # "ok"
        THEN [fetched EXCEPT !.outcome = ac.status,
                             !.raised_in = "np.allclose"]
        ELSE IF kw_extrap_tf # "absent"
        THEN [warned EXCEPT !.outcome = "TypeError",
                            !.raised_in = "call of amplify_motion"]
        ELSE IF result.status # "ok"
        THEN [amplified EXCEPT !.outcome = result.status,
                               !.raised_in = "amplify_motion"]
        ELSE IF show_fig /\ result.shape # "triple"
        THEN [amplified EXCEPT !.outcome = "TypeError",
                               !.raised_in = "unpacking of result"]
        ELSE IF out.status # "ok"
        THEN [amplified EXCEPT !.outcome = out.status,
                               !.raised_in = "Ground_Motion"]
        ELSE [amplified EXCEPT
                !.titled = show_fig,
                !.outcome = "ok",
                !.ret = RunReturn(show_fig, return_fig_obj, out.gm,
                                  result.fig, result.ax)]

(***************************************************************************)
(* Specification Spec: construct a Site_Effect_Adjustment and run it       *)
(***************************************************************************)
\* the input motions: the two array records of test_loading_data
InputMotions ==
    { Ground_Motion(c.data, c.unit, c.dt).gm :
        c \in { d \in TestCalls : Len(d.data.v) < 15 /\
                    (d.data.cols = 2 \/ d.dt # NoDt) } }

CtorArgs ==
    [input_motion :
        { [type |-> "Ground_Motion", gm |-> g] : g \in InputMotions }
            \cup { [type |-> "ndarray", gm |-> NoGM] },
     Vs30 : { PyVal("int", 300), PyVal("numpy.float64", 700),
              PyVal("str", 0) },
     z1 : { Omitted, PyVal("int", 0), PyVal("float", 50000),
            PyVal("str", 0) },
     ampl_method : { "omitted", "eq_hh", "linear" },
     lenient : { "omitted", "True" }]

\* what the collaborator can hold for a site
Sites ==
    [in_range : BOOLEAN,
     af_freq : { Grid(MaxGrid, 0) },
     af_complex : BOOLEAN,
     phf_freq : { Grid(n, sh) : n \in 1..MaxGrid, sh \in {0, 500, 10000000} },
     phf_complex : BOOLEAN]

NoCtor ==
    [called |-> FALSE, status |-> "none",
     args |-> [input_motion |-> [type |-> "ndarray", gm |-> NoGM],
               Vs30 |-> PyNone, z1 |-> Omitted, ampl_method |-> "omitted",
               lenient |-> "omitted"]]

NoFirst == [set |-> FALSE, motion |-> NoGM]

SEAIdle ==
    /\ ctor = NoCtor
    /\ obj = NoAttrs
    /\ last = NoRun
    /\ outs = NoFirst

Init ==
    /\ GMIdle
    /\ HHIdle
    /\ site \in Sites
    /\ SEAIdle

\* sea = Site_Effect_Adjustment(input_motion, Vs30, ...)
Construct ==
    /\ ~ctor.called
    /\ \E args \in CtorArgs :
        LET r == SEA_init(args) IN
        /\ ctor' = [called |-> TRUE, status |-> r.status, args |-> args]
        /\ obj' = r.attrs
        /\ last' = NoRun
        /\ outs' = NoFirst
        /\ UNCHANGED <<site, gmVars, hhVars>>

\* sea.run(show_fig=..., return_fig_obj=..., **kwargs_to_plot)
Run ==
    /\ ctor.status = "ok"
    /\ \E show_fig \in BOOLEAN, return_fig_obj \in BOOLEAN,
          kw \in {"absent", "True", "False"} :
          LET r == SEA_run(obj, show_fig, return_fig_obj, kw) IN
          /\ last' = r
          /\ outs' = IF r.outcome = "ok" /\ ~outs.set
                     THEN [set |-> TRUE, motion |-> r.ret.motion]
                     ELSE outs
    /\ UNCHANGED <<site, ctor, obj, gmVars, hhVars>>

Next == Construct \/ Run

Spec == Init /\ [][Next]_vars

InitGM ==
    /\ \/ gm_args \in OneColumnCalls
       \/ gm_args \in TwoColumnCalls
       \/ gm_args \in TestCalls
    /\ gm_res = GMPending
    /\ gm_read = NothingRead
    /\ HHIdle
    /\ site = CHOOSE st \in Sites : TRUE
    /\ SEAIdle

NextGM ==
    \/ GM_Construct /\ UNCHANGED <<hhVars, seaVars>>
    \/ GM_ReadPGA /\ UNCHANGED <<hhVars, seaVars>>
    \/ GM_ReadVeloc /\ UNCHANGED <<hhVars, seaVars>>
    \/ GM_ReadDispl /\ UNCHANGED <<hhVars, seaVars>>

SpecGM == InitGM /\ [][NextGM]_vars

InitHH ==
    /\ GMIdle
    /\ hh_param \in HHParams
    /\ hh_array = NoArray
    /\ hh_back = NoBack
    /\ site = CHOOSE st \in Sites : TRUE
    /\ SEAIdle

NextHH ==
    \/ HH_Serialize /\ UNCHANGED <<gmVars, seaVars>>
    \/ HH_Deserialize /\ UNCHANGED <<gmVars, seaVars>>
    \/ HH_DeserializeOther /\ UNCHANGED <<gmVars, seaVars>>

SpecHH == InitHH /\ [][NextHH]_vars

(***************************************************************************)
(* Properties of Site_Effect_Adjustment, checked under Spec                *)
(***************************************************************************)
\* the collaborator returned both factors to the last run
FactorsReturned == last.called /\ Len(last.af_calls) = 1

\* the two frequency grids are not the same grid (to numpy's tolerance)
GridsDiffer ==
    \/ Len(site.af_freq) # Len(site.phf_freq)
    \/ \E i \in 1..Len(site.af_freq) :
          ~IsClose(site.af_freq[i], site.phf_freq[i])

\* the warnings owed to the anomalies of the factors held for the site
AnomalyWarnings ==
    (IF GridsDiffer THEN {WARN_FREQ} ELSE {})
    \cup (IF site.af_complex THEN {WARN_AF_COMPLEX} ELSE {})
    \cup (IF site.phf_complex THEN {WARN_PHF_COMPLEX} ELSE {})

\* C1: whatever pair of factors the collaborator returned, an anomaly
\* (grids differ, amplification complex, phase complex) never raises: the
\* run prints one warning per anomaly, invokes the amplifier exactly once
\* and returns an output Ground_Motion.
C1_AnomalyNeverRaises ==
    (FactorsReturned /\ last.args.kw_extrap_tf = "absent") =>
        /\ last.outcome = "ok"
        /\ last.warnings = AnomalyWarnings
        /\ Len(last.amp_calls) = 1
        /\ last.ret.shape # "none"
        /\ last.ret.motion # NoGM

\* the constructor arguments break the type contract
C2_TypeViolation ==
    \/ ctor.args.input_motion.type # "Ground_Motion"
    \/ ctor.args.Vs30.type \notin {"int", "float", "numpy.float64"}
    \/ ctor.args.z1.type \notin
          {"int", "float", "numpy.float64", "NoneType", "omitted"}

\* the constructor arguments name an unsupported method
C2_MethodViolation ==
    ctor.args.ampl_method \notin {"nl_hh", "eq_hh", "omitted"}

\* C2: a constructor call with an input_motion that is not a Ground_Motion,
\* a Vs30 that is not a number or a z1 that is neither a number nor None
\* raises TypeError; with well-typed arguments and a method other than
\* 'nl_hh' and 'eq_hh' it raises ValueError; either way no attribute of the
\* object is set, and a call with neither fault succeeds.
C2_ConstructorRejects ==
    ctor.called =>
        /\ C2_TypeViolation => ctor.status = "TypeError"
        /\ (~C2_TypeViolation /\ C2_MethodViolation) =>
              ctor.status = "ValueError"
        /\ (C2_TypeViolation \/ C2_MethodViolation) =>
              (obj.set = {} /\ obj = NoAttrs)
        /\ (~C2_TypeViolation /\ ~C2_MethodViolation) => ctor.status = "ok"

\* a z1 given as a string was refused with TypeError, the rest being valid
C2_Witness ==
    /\ ctor.called
    /\ ctor.args.z1.type = "str"
    /\ ctor.args.input_motion.type = "Ground_Motion"
    /\ ctor.args.Vs30.type = "int"
    /\ ctor.status = "TypeError"
    /\ obj.set = {}

\* C3 as stated: built with default arguments the object is lenient, and
\* in strict mode an integrity anomaly fails the run instead of warning.
C3_LenientByDefault ==
    /\ (ctor.status = "ok" /\ ctor.args.lenient = "omitted") =>
          obj.lenient = TRUE
    /\ (FactorsReturned /\ ~obj.lenient /\ AnomalyWarnings # {}) =>
          last.outcome \notin {"none", "ok"}

\* what a run that got its factors does, in terms of the factors and the
\* keyword arguments alone
C3_OutcomeByFactors ==
    IF ~Broadcastable(site.af_freq, site.phf_freq) THEN "ValueError"
    ELSE IF last.args.kw_extrap_tf # "absent" THEN "TypeError"
    ELSE "ok"

\* C3 amended: the lenient flag defaults to False (strict), is stored as
\* given and is only forwarded to the site-factor collaborator; how run
\* treats an integrity anomaly does not depend on it: in either mode the
\* outcome is fixed by the factors and the keyword arguments, and where
\* np.allclose does not raise the warnings are those of the anomalies.
C3_FlagOnlyForwarded ==
    /\ ctor.status = "ok" => obj.lenient = (ctor.args.lenient = "True")
    /\ last.called =>
          /\ Len(last.sf_calls) = 1
          /\ last.sf_calls[1].lenient = obj.lenient
    /\ FactorsReturned =>
          /\ last.outcome = C3_OutcomeByFactors
          /\ Broadcastable(site.af_freq, site.phf_freq) =>
                last.warnings = AnomalyWarnings

\* an object built with the default flag ran in strict mode, warned about
\* all three anomalies and still returned
C3_Witness ==
    /\ ctor.args.lenient = "omitted"
    /\ FactorsReturned
    /\ ~last.sf_calls[1].lenient
    /\ last.warnings = {WARN_FREQ, WARN_AF_COMPLEX, WARN_PHF_COMPLEX}
    /\ last.outcome = "ok"

\* the last run reached its call of the amplifier
C4_ReachedAmplifierCall ==
    FactorsReturned /\ Broadcastable(site.af_freq, site.phf_freq)

\* C4 as stated: a caller of run who asks for strict failure
\* (extrap_tf=False) gets the amplifier invoked with that policy.
C4_CallerSelectsPolicy ==
    (C4_ReachedAmplifierCall /\ last.args.kw_extrap_tf = "False") =>
        /\ Len(last.amp_calls) = 1
        /\ last.amp_calls[1].extrap_tf = FALSE

\* C4 amended: run always invokes the amplifier with flat extrapolation
\* (extrap_tf=True), also when the input spectrum exceeds the range of
\* the transfer function; its caller cannot select strict failure: a run
\* given extrap_tf among its keyword arguments raises TypeError at the
\* call of amplify_motion, which is then not invoked.
C4_AlwaysExtrapolates ==
    last.called =>
        /\ \A i \in 1..Len(last.amp_calls) : last.amp_calls[i].extrap_tf
        /\ (C4_ReachedAmplifierCall /\ last.args.kw_extrap_tf # "absent") =>
              (last.outcome = "TypeError" /\ last.amp_calls = <<>>)
        /\ (C4_ReachedAmplifierCall /\ last.args.kw_extrap_tf = "absent") =>
              (last.outcome = "ok" /\ Len(last.amp_calls) = 1)

\* the amplifier extrapolated: the input spectrum exceeds the range of the
\* transfer function and the run returned
C4_Witness ==
    /\ last.outcome = "ok"
    /\ Len(last.amp_calls) = 1
    /\ last.amp_calls[1].extrap_tf
    /\ ~Covers(last.amp_calls[1].tf.freq, last.amp_calls[1].accel.time)

\* C5: after a valid construction Vs30 is the caller's value; z1 is the
\* caller's value when one was given (0 included) and otherwise
\* 140.511 * exp(-0.00303 * Vs30): 56.616 m for 300 m/s, 16.849 m for
\* 700 m/s, to the 10 mm of the fixed-point arithmetic.
C5_StoredVs30AndZ1 ==
    ctor.status = "ok" =>
        /\ obj.Vs30 = ctor.args.Vs30
        /\ ctor.args.z1.type \notin {"omitted", "NoneType"} =>
              obj.z1 = ctor.args.z1
        /\ ctor.args.z1.type \in {"omitted", "NoneType"} =>
              /\ ctor.args.Vs30.val = 300 => Abs(obj.z1.val - 56616) <= 10
              /\ ctor.args.Vs30.val = 700 => Abs(obj.z1.val - 16849) <= 10
              /\ ctor.args.Vs30.val \in {300, 700}

\* a z1 of 0 was given and is stored as 0
C5_Witness ==
    /\ ctor.status = "ok"
    /\ ctor.args.z1 = PyVal("int", 0)
    /\ obj.z1 = PyVal("int", 0)
    /\ obj.Vs30.val = 700

\* C9: a run that returns gives the output motion alone when
\* return_fig_obj is false and (motion, fig, ax) when it is true, with fig
\* and ax None exactly when show_fig is false; the motion is the one every
\* returning run of the object gives, whatever the two flags.
C9_PlotIsOptional ==
    last.outcome = "ok" =>
        /\ last.ret.motion # NoGM
        /\ outs.set /\ last.ret.motion = outs.motion
        /\ ~last.args.return_fig_obj =>
              (last.ret.shape = "single" /\ last.ret.fig = "None"
               /\ last.ret.ax = "None")
        /\ last.args.return_fig_obj =>
              /\ last.ret.shape = "triple"
              /\ (last.ret.fig = "None") <=> ~last.args.show_fig
              /\ (last.ret.ax = "None") <=> ~last.args.show_fig

\* a run asked for the figure objects without showing a figure and got
\* (motion, None, None)
C9_Witness ==
    /\ last.outcome = "ok"
    /\ last.args.return_fig_obj /\ ~last.args.show_fig
    /\ last.ret.shape = "triple"
    /\ last.ret.fig = "None"

\* what the calls of the last run must have been, from the constructor's
\* arguments
C10_CallsFromConstruction ==
    LET a == BindArgs(ctor.args)
        gm == ctor.args.input_motion.gm
    IN  /\ \A i \in 1..Len(last.sf_calls) :
              /\ last.sf_calls[i].Vs30 = ctor.args.Vs30
              /\ last.sf_calls[i].z1 = obj.z1
              /\ last.sf_calls[i].PGA = (MaxAbs(gm.accel) * 1000) \div 981
        /\ \A i \in 1..Len(last.af_calls) :
              last.af_calls[i].method = a.ampl_method
        /\ \A i \in 1..Len(last.phf_calls) :
              last.phf_calls[i].method = "eq_hh"
        /\ \A i \in 1..Len(last.amp_calls) :
              last.amp_calls[i].accel = [time |-> gm.time, val |-> gm.accel]

\* C10: a run leaves input_motion, Vs30, z1, PGA_in_g, the lenient flag
\* and the method as the constructor set them, so every run queries the
\* collaborator with the same (Vs30, z1, PGA), asks for the amplification
\* with the configured method and for the phase shift with 'eq_hh', and
\* hands the input motion's own acceleration to the amplifier.
C10_RunKeepsObject ==
    /\ [](last.called => C10_CallsFromConstruction)
    /\ [][ctor.called => (obj' = obj /\ ctor' = ctor)]_vars

\* a run of an object configured with 'nl_hh' reached the amplifier
C10_Witness ==
    /\ last.called
    /\ Len(last.amp_calls) = 1
    /\ obj.ampl_method = "nl_hh"
    /\ last.af_calls[1].method = "nl_hh"
    /\ last.phf_calls[1].method = "eq_hh"

C7_OneColumn == gm_args.data.cols = 1

C7_TwoColumn == gm_args.data.cols = 2 /\ TimeOK(gm_args.data.t)

\* C7: with a valid unit, one-column data without dt raises ValueError
\* saying dt is needed for one-column data; two-column (time, value) data
\* and one-column data with dt construct a record, and its PGA read back
\* in the declared unit is the largest absolute sample given.
C7_DtNeededForOneColumn ==
    (gm_res.status # "pending" /\ gm_args.unit \in ACCEL_UNITS) =>
        /\ (C7_OneColumn /\ gm_args.dt = NoDt) =>
              /\ gm_res.status = "ValueError"
              /\ gm_res.msg = "dt is needed for one-column data"
        /\ (C7_TwoColumn \/ (C7_OneColumn /\ gm_args.dt # NoDt)) =>
              /\ gm_res.status = "ok"
              /\ gm_read.has_pga =>
                    /\ \E i \in 1..Len(gm_args.data.v) :
                          gm_read.pga = Abs(gm_args.data.v[i])
                    /\ \A i \in 1..Len(gm_args.data.v) :
                          gm_read.pga >= Abs(gm_args.data.v[i])

\* the record [1, 2, 3, 4, 5] in gal with dt = 0.1 s has a PGA of 5 gal
C7_Witness ==
    /\ gm_args.data = OneCol(<<1, 2, 3, 4, 5>>)
    /\ gm_args.unit = "gal"
    /\ gm_args.dt = 1
    /\ gm_res.status = "ok"
    /\ gm_read.has_pga
    /\ gm_read.pga = 5

\* C8: the velocity has the time points of the acceleration and its k-th
\* value is dt times the sum of the first k acceleration samples; the
\* displacement is the same integration of the velocity; for the record of
\* test_num_integration they are the tables v_bench and u_bench.
C8_CumulativeIntegration ==
    LET gm == gm_res.gm
        n == Len(gm.accel)
        v == [k \in 1..n |-> gm.dt * SumTo(gm.accel, k)]
    IN  /\ gm_read.has_veloc =>
              /\ gm_read.veloc.time = gm.time
              /\ Len(gm_read.veloc.time) = n
              /\ gm_read.veloc.val = v
              /\ gm_args.data.v = A_BENCH => gm_read.veloc.val = V_BENCH
        /\ gm_read.has_displ =>
              /\ gm_read.displ.time = gm.time
              /\ gm_read.displ.val = [k \in 1..n |-> gm.dt * SumTo(v, k)]
              /\ gm_args.data.v = A_BENCH => gm_read.displ.val = U_BENCH

\* the record of test_num_integration was integrated twice
C8_Witness ==
    /\ gm_args.data.v = A_BENCH
    /\ gm_read.has_veloc /\ gm_read.has_displ
    /\ gm_read.veloc.val[15] = 6000
    /\ gm_read.displ.val[15] = 40000

=============================================================================
